---- MODULE Spec2Model ----
(***************************************************************************)
(* Pipeline-state builders of src/pipeline/mod.rs: the graphics and the    *)
(* compute builder, the descriptor each build assembles and hands to the   *)
(* device, the handles a build returns, their cache blobs, and the         *)
(* ComparisonFunc flag type.                                               *)
(***************************************************************************)
EXTENDS Integers, Sequences, FiniteSets, TLC

\* ------------------------------------------------------------------ bounds
MaxAssign == 1         \* field assignments explored in one run
MaxObjects == 2        \* device objects the caller keeps: handles and cache blobs

\* ------------------------------------------------------- program constants
U16Max == 65535        \* each 16-bit half of ::std::u32::MAX
RtCapacity == 8        \* [DxgiFormat; 8]
FlagNoneBits == 0      \* PipelineStateFlags::NONE
FlagToolDebugBits == 1 \* PipelineStateFlags::TOOL_DEBUG
NEVER == 1
LESS == 2
EQUAL == 3
LESS_EQUAL == 4
GREATER == 5
NOT_EQUAL == 6
GREATER_EQUAL == 7
ALWAYS == 8

\* ------------------------------------------------------------ value shapes
None == [tag |-> "None"]
Some(v) == [tag |-> "Some", val |-> v]
IsSome(o) == o.tag = "Some"

NullPtr == [region |-> "null", id |-> 0]
Ptr(r, i) == [region |-> r, id |-> i]

Bytecodes == {1}
SoEntryCounts == {0, 1}
BlobSizes == {0, 1}
ElementCounts == {0, 1}
RootSigs == {1}
HResults == {"S_OK", "E_INVALIDARG"}
Topologies == {"TRIANGLE", "LINE"}
PlainValues == {"Default", "Custom"}
NumRtValues == {0, 1, RtCapacity, RtCapacity + 1}
\* a u32 bit mask, as its high and low 16-bit halves
Mask32(hi, lo) == [hi |-> hi, lo |-> lo]
AllBitsSet == Mask32(U16Max, U16Max)
SampleMasks == {Mask32(0, 0), AllBitsSet}
NodeMasks == {0, 1}
RtIndex == 0..(RtCapacity - 1)
RtIndexChoices == {0, RtCapacity - 1}
RtvFormats == {"UNKNOWN", "R8G8B8A8_UNORM"}
DsvFormats == {"D24_UNORM_S8_UINT", "UNKNOWN"}

\* PipelineStateFlags: the flag sets the bitflags type can hold
FlagSets == {{}, {"TOOL_DEBUG"}}
FlagBits(fs) == IF "TOOL_DEBUG" \in fs THEN FlagToolDebugBits ELSE FlagNoneBits

VARIABLES gb, cb, pc, desc, soBacking, soSeen, op, calls, devHr, devRet,
          result, handles, blobs, prev, assigns, touched, session, cfx, cfy

vars == <<gb, cb, pc, desc, soBacking, soSeen, op, calls, devHr, devRet,
          result, handles, blobs, prev, assigns, touched, session, cfx, cfy>>

\* ------------------------------------------------ collaborators (not in src)
\* shader::*ShaderBytecode::to_shader_bytecode: the (pointer, length) view of
\* bytecode object b
to_shader_bytecode(b) ==
    [pShaderBytecode |-> Ptr("bytecode", b), BytecodeLength |-> b]

\* so::DescBuilder::build: the pair (flat struct, backing storage); the flat
\* struct points into the backing storage it is returned with
SoBuild(so) ==
    [flat |-> [pSODeclaration |-> Ptr("so_backing", 0), NumEntries |-> so],
     backing |-> so]

\* error::WinError::from_hresult_or_ok(hr, f): Ok(f()) on the success status,
\* otherwise the error carrying hr; f is not evaluated on failure
Succeeded(hr) == hr = "S_OK"
from_hresult_or_ok(hr, v) ==
    IF Succeeded(hr) THEN [tag |-> "Ok", val |-> v]
    ELSE [tag |-> "Err", status |-> hr]

\* ------------------------------------------------------- graphics builder
ShaderFields == {"vs", "ps", "ds", "hs", "gs"}
PlainFields == {"blend_state", "rasterizer_state", "depth_stencil_state",
                "strip_cut_value", "sample_desc"}
GFields == ShaderFields \cup PlainFields \cup
           {"rootsig", "stream_output", "sample_mask", "input_layout",
            "primitive_topology_type", "num_render_targets", "rtv_formats",
            "dsv_format", "node_mask", "cache", "flags"}

\* faulty variant: only the low 16 bits of the default sample mask are set
SampleMaskLowHalf == Mask32(0, U16Max)

\* sample_mask: ::std::u32::MAX
DefaultSampleMask == AllBitsSet

GraphicsPipelineStateBuilder_new(root_signature) ==
    [rootsig |-> root_signature,
     vs |-> None, ps |-> None, ds |-> None, hs |-> None, gs |-> None,
     stream_output |-> 0,
     blend_state |-> "Default",
     sample_mask |-> DefaultSampleMask,
     rasterizer_state |-> "Default",
     depth_stencil_state |-> "Default",
     input_layout |-> 0,
     strip_cut_value |-> "Default",
     primitive_topology_type |-> "TRIANGLE",
     num_render_targets |-> 1,
     rtv_formats |-> [i \in RtIndex |-> "UNKNOWN"],
     dsv_format |-> "D24_UNORM_S8_UINT",
     sample_desc |-> "Default",
     node_mask |-> 0,
     cache |-> None,
     flags |-> {}]

ZeroShader == [pShaderBytecode |-> NullPtr, BytecodeLength |-> 0]
ZeroCached == [pCachedBlob |-> NullPtr, CachedBlobSizeInBytes |-> 0]
NoDesc == [kind |-> "none"]

GraphicsDescZero ==
    [kind |-> "graphics",
     pRootSignature |-> NullPtr,
     VS |-> ZeroShader, PS |-> ZeroShader, DS |-> ZeroShader,
     HS |-> ZeroShader, GS |-> ZeroShader,
     StreamOutput |-> [pSODeclaration |-> NullPtr, NumEntries |-> 0],
     BlendState |-> "Zeroed",
     SampleMask |-> Mask32(0, 0),
     RasterizerState |-> "Zeroed",
     DepthStencilState |-> "Zeroed",
     InputLayout |-> [pInputElementDescs |-> NullPtr, NumElements |-> 0],
     IBStripCutValue |-> "Zeroed",
     PrimitiveTopologyType |-> "Zeroed",
     NumRenderTargets |-> 0,
     RTVFormats |-> [i \in RtIndex |-> "UNKNOWN"],
     DSVFormat |-> "UNKNOWN",
     SampleDesc |-> "Zeroed",
     NodeMask |-> 0,
     CachedPSO |-> ZeroCached,
     Flags |-> 0]

\* faulty variant: the descriptor starts from the one of the previous build
StaleGraphicsDesc == IF prev.kind = "G" THEN prev.desc ELSE GraphicsDescZero

\* let mut desc = ::std::mem::zeroed();
ZeroedGraphicsDesc == GraphicsDescZero

\* if let Some(ref mut s) = self.<stage> { desc.<STAGE> = s.to_shader_bytecode(); }
SetStage(d, F, opt) ==
    IF IsSome(opt) THEN [d EXCEPT ![F] = to_shader_bytecode(opt.val)] ELSE d

\* $PSC::to_ffi_cache: the blob object's GetBufferPointer / GetBufferSize
to_ffi_cache(c) ==
    [pCachedBlob |-> blobs[c.ptr].buf,
     CachedBlobSizeInBytes |-> blobs[c.ptr].size]

\* faulty variant: the cache hint is never copied into the descriptor
SetCachedNever(d, opt) == d

\* if let Some(ref mut pso) = self.cache { desc.CachedPSO = pso.to_ffi_cache(); }
SetCached(d, opt) ==
    IF IsSome(opt) THEN [d EXCEPT !.CachedPSO = to_ffi_cache(opt.val)] ELSE d

\* desc.NumRenderTargets = self.num_render_targets;
NumRenderTargetsOf(b) == b.num_render_targets

\* the descriptor GraphicsPipelineStateBuilder::build assembles, statement by
\* statement
GraphicsDesc(b) ==
    LET d0 == ZeroedGraphicsDesc
        d1 == [d0 EXCEPT !.pRootSignature = Ptr("rootsig", b.rootsig)]
        d2 == SetStage(d1, "VS", b.vs)
        d3 == SetStage(d2, "PS", b.ps)
        d4 == SetStage(d3, "DS", b.ds)
        d5 == SetStage(d4, "HS", b.hs)
        d6 == SetStage(d5, "GS", b.gs)
        d7 == [d6 EXCEPT
                 !.StreamOutput = SoBuild(b.stream_output).flat,
                 !.BlendState = b.blend_state,
                 !.SampleMask = b.sample_mask,
                 !.RasterizerState = b.rasterizer_state,
                 !.DepthStencilState = b.depth_stencil_state,
                 !.InputLayout = [pInputElementDescs |-> Ptr("input_elements", 0),
                                  NumElements |-> b.input_layout],
                 !.IBStripCutValue = b.strip_cut_value,
                 !.PrimitiveTopologyType = b.primitive_topology_type,
                 !.NumRenderTargets = NumRenderTargetsOf(b),
                 !.RTVFormats = [i \in RtIndex |-> b.rtv_formats[i]],
                 !.DSVFormat = b.dsv_format,
                 !.SampleDesc = b.sample_desc,
                 !.NodeMask = b.node_mask]
        d8 == SetCached(d7, b.cache)
    IN  [d8 EXCEPT !.Flags = FlagBits(b.flags)]

\* desc.StreamOutput = self.stream_output.build().0;
\* the pair build() returns is a temporary of this statement: its first element
\* is copied out and the pair, with the backing storage, is dropped at the
\* statement's end
SoBackingAfterStatement == "released"

\* what the device finds behind desc.StreamOutput.pSODeclaration
DeviceReads(d, backing) ==
    IF d.StreamOutput.NumEntries = 0 THEN {"nothing"}
    ELSE IF backing = "alive" THEN {"entries"}
    ELSE {"entries", "garbage"}

\* -------------------------------------------------------- compute builder
CFields == {"rootsig", "cs", "node_mask", "cache", "flags"}

ComputePipelineStateBuilder_new(root_signature) ==
    [rootsig |-> root_signature,
     cs |-> None,
     node_mask |-> 0,
     cache |-> None,
     flags |-> {}]

\* let mut desc = ::std::mem::zeroed();
ZeroedComputeDesc ==
    [kind |-> "compute",
     pRootSignature |-> NullPtr,
     CS |-> ZeroShader,
     NodeMask |-> 0,
     CachedPSO |-> ZeroCached,
     Flags |-> 0]

\* the descriptor ComputePipelineStateBuilder::build assembles
ComputeDesc(b) ==
    LET d0 == ZeroedComputeDesc
        d1 == [d0 EXCEPT !.pRootSignature = Ptr("rootsig", b.rootsig)]
        d2 == SetStage(d1, "CS", b.cs)
        d3 == [d2 EXCEPT !.NodeMask = b.node_mask]
        d4 == SetCached(d3, b.cache)
    IN  [d4 EXCEPT !.Flags = FlagBits(b.flags)]

\* faulty variant: build takes the cache hint out of the builder
BuilderLosesCache(b) == [b EXCEPT !.cache = None]

\* build(&mut self, ..) assigns to no field of self
BuilderAfterBuild(b) == b

\* ----------------------------------------------------------------- handles
\* the resource reference a successful creation returns: a new device object
FreshResource == Ptr("pso", Cardinality({handles[i].ptr : i \in DOMAIN handles}) + 1)
Unset == Ptr("uninitialized", 0)

\* faulty variant: the handle is wrapped whatever the status
WrapAlways(hr, kind, ret) ==
    [tag |-> "Ok", val |-> [kind |-> kind, ptr |-> ret]]

\* WinError::from_hresult_or_ok(hr, || <Kind>PipelineState{ ptr: ComPtr::new(ret) })
BuildResult(hr, kind, ret) ==
    from_hresult_or_ok(hr, [kind |-> kind, ptr |-> ret])

\* the caller can keep one more device object
HasRoom == Len(handles) + Len(blobs) < MaxObjects

\* the handles the caller holds after a build returned res
Kept(res) ==
    IF res.tag = "Ok" /\ HasRoom
    THEN Append(handles, res.val)
    ELSE handles

\* the values field f of the graphics builder can be assigned
GDomain(f) ==
    CASE f \in ShaderFields -> {None} \cup {Some(b) : b \in Bytecodes}
      [] f \in PlainFields -> PlainValues
      [] f = "rootsig" -> RootSigs
      [] f = "stream_output" -> SoEntryCounts
      [] f = "sample_mask" -> SampleMasks
      [] f = "input_layout" -> ElementCounts
      [] f = "primitive_topology_type" -> Topologies
      [] f = "num_render_targets" -> NumRtValues
      [] f = "rtv_formats" ->
           {[gb.rtv_formats EXCEPT ![i] = x] : i \in RtIndexChoices, x \in RtvFormats}
      [] f = "dsv_format" -> DsvFormats
      [] f = "node_mask" -> NodeMasks
      [] f = "cache" ->
           {None} \cup {Some([ptr |-> i]) :
                          i \in {j \in DOMAIN blobs : blobs[j].kind = "G"}}
      [] f = "flags" -> FlagSets

\* the values field f of the compute builder can be assigned
CDomain(f) ==
    CASE f = "rootsig" -> RootSigs
      [] f = "cs" -> {None} \cup {Some(b) : b \in Bytecodes}
      [] f = "node_mask" -> NodeMasks
      [] f = "cache" ->
           {None} \cup {Some([ptr |-> i]) :
                          i \in {j \in DOMAIN blobs : blobs[j].kind = "C"}}
      [] f = "flags" -> FlagSets

\* ------------------------------------------------------------------ state
\* The two builder types share no state: a run works with the graphics builder
\* or with the compute builder (session).
Init ==
    /\ gb = GraphicsPipelineStateBuilder_new(1)
    /\ cb = ComputePipelineStateBuilder_new(1)
    /\ pc = "idle"
    /\ desc = NoDesc
    /\ soBacking = "none"
    /\ soSeen = "none"
    /\ op = "none"
    /\ calls = 0
    /\ devHr = "none"
    /\ devRet = Unset
    /\ result = None
    /\ handles = <<>>
    /\ blobs = <<>>
    /\ prev = [kind |-> "none"]
    /\ assigns = 0
    /\ touched = {}
    /\ session \in {"G", "C"}
    /\ cfx = NEVER
    /\ cfy = NEVER

cmpVars == <<session, cfx, cfy>>
callVars == <<pc, desc, soBacking, soSeen, op, calls, devHr, devRet, result>>
flightVars == <<pc, desc, soBacking, soSeen>>

\* the caller moves on: the value the last call returned is dropped
Consumed ==
    /\ op' = "none"
    /\ calls' = 0
    /\ devHr' = "none"
    /\ devRet' = Unset
    /\ result' = None

\* GraphicsPipelineStateBuilder::new
GNew ==
    /\ session = "G"
    /\ pc = "idle"
    /\ \E rs \in RootSigs : gb' = GraphicsPipelineStateBuilder_new(rs)
    /\ touched' = {}
    /\ Consumed
    /\ UNCHANGED <<cb, flightVars, handles, blobs, prev, assigns, cmpVars>>

\* ComputePipelineStateBuilder::new
CNew ==
    /\ session = "C"
    /\ pc = "idle"
    /\ \E rs \in RootSigs : cb' = ComputePipelineStateBuilder_new(rs)
    /\ Consumed
    /\ UNCHANGED <<gb, flightVars, handles, blobs, prev, assigns, touched,
                   cmpVars>>

\* assignment to a public field of the graphics builder
GAssign ==
    /\ session = "G"
    /\ pc = "idle"
    /\ assigns < MaxAssign
    /\ \E f \in GFields : \E v \in GDomain(f) :
         /\ v # gb[f]
         /\ gb' = [gb EXCEPT ![f] = v]
         /\ touched' = touched \cup {f}
    /\ assigns' = assigns + 1
    /\ Consumed
    /\ UNCHANGED <<cb, flightVars, handles, blobs, prev, cmpVars>>

\* assignment to a public field of the compute builder
CAssign ==
    /\ session = "C"
    /\ pc = "idle"
    /\ assigns < MaxAssign
    /\ \E f \in CFields : \E v \in CDomain(f) :
         /\ v # cb[f]
         /\ cb' = [cb EXCEPT ![f] = v]
    /\ assigns' = assigns + 1
    /\ Consumed
    /\ UNCHANGED <<gb, flightVars, handles, blobs, prev, touched, cmpVars>>

\* GraphicsPipelineStateBuilder::build up to the device call: the descriptor is
\* assembled and CreateGraphicsPipelineState is entered
GBuildCall ==
    /\ session = "G"
    /\ pc = "idle"
    /\ pc' = "g_call"
    /\ desc' = GraphicsDesc(gb)
    /\ soBacking' = SoBackingAfterStatement
    /\ soSeen' \in DeviceReads(desc', soBacking')
    /\ op' = "build"
    /\ calls' = 1
    /\ devHr' = "none"
    /\ devRet' = Unset
    /\ result' = None
    /\ gb' = BuilderAfterBuild(gb)
    /\ UNCHANGED <<cb, handles, blobs, prev, assigns, touched, cmpVars>>

\* CreateGraphicsPipelineState returns (hr, ret) and build returns its result
GBuildReturn ==
    /\ pc = "g_call"
    /\ \E hr \in HResults :
         LET ret == IF Succeeded(hr) THEN FreshResource ELSE Unset
             res == BuildResult(hr, "G", ret)
         IN  /\ devHr' = hr
             /\ devRet' = ret
             /\ result' = res
             /\ handles' = Kept(res)
             /\ prev' = [kind |-> "G", cfg |-> gb, desc |-> desc, ret |-> ret]
    /\ pc' = "idle"
    /\ desc' = NoDesc
    /\ soBacking' = "none"
    /\ soSeen' = "none"
    /\ UNCHANGED <<gb, cb, op, calls, blobs, assigns, touched, cmpVars>>

\* ComputePipelineStateBuilder::build up to the device call
CBuildCall ==
    /\ session = "C"
    /\ pc = "idle"
    /\ pc' = "c_call"
    /\ desc' = ComputeDesc(cb)
    /\ op' = "build"
    /\ calls' = 1
    /\ devHr' = "none"
    /\ devRet' = Unset
    /\ result' = None
    /\ cb' = BuilderAfterBuild(cb)
    /\ UNCHANGED <<gb, soBacking, soSeen, handles, blobs, prev,
                   assigns, touched, cmpVars>>

\* CreateComputePipelineState returns (hr, ret) and build returns its result
CBuildReturn ==
    /\ pc = "c_call"
    /\ \E hr \in HResults :
         LET ret == IF Succeeded(hr) THEN FreshResource ELSE Unset
             res == BuildResult(hr, "C", ret)
         IN  /\ devHr' = hr
             /\ devRet' = ret
             /\ result' = res
             /\ handles' = Kept(res)
             /\ prev' = [kind |-> "C", cfg |-> cb, desc |-> desc, ret |-> ret]
    /\ pc' = "idle"
    /\ desc' = NoDesc
    /\ UNCHANGED <<gb, cb, soBacking, soSeen, op, calls, blobs, assigns,
                   touched, cmpVars>>

\* the blob object a successful GetCachedBlob returns: a new device object with
\* the buffer and the size the device chose
NewBlob(h, n) ==
    [kind |-> handles[h].kind, buf |-> Ptr("blob", Len(blobs) + 1), size |-> n,
     from |-> handles[h].ptr]

\* faulty variant: cached() keeps a blob only when its buffer is not empty
CachedResultNonEmpty(hr, h, n) ==
    IF Succeeded(hr) /\ n > 0
    THEN [tag |-> "Ok", val |-> [kind |-> handles[h].kind, ptr |-> Len(blobs) + 1]]
    ELSE [tag |-> "Err", status |-> hr]

\* WinError::from_hresult_or_ok(hr, || $PSC{ ptr: ComPtr::new(ret) })
CachedResult(hr, h, n) ==
    from_hresult_or_ok(hr, [kind |-> handles[h].kind, ptr |-> Len(blobs) + 1])

\* faulty variant: cached() stores the returned reference in the handle
CachedOverwritesHandle(h, ret) ==
    [handles EXCEPT ![h].ptr = ret]

\* cached(&mut self) only reads self.ptr
HandlesAfterCached(h, ret) == handles

\* $PS::cached: GetCachedBlob returns (hr, blob) and cached returns its result
Cached ==
    /\ pc = "idle"
    /\ \E h \in DOMAIN handles : \E hr \in HResults : \E n \in BlobSizes :
         /\ Succeeded(hr) => HasRoom
         /\ ~Succeeded(hr) => n = 0
         /\ LET ret == IF Succeeded(hr) THEN Ptr("blob_object", Len(blobs) + 1)
                       ELSE Unset
                res == CachedResult(hr, h, n)
            IN  /\ devHr' = hr
                /\ devRet' = ret
                /\ result' = res
                /\ blobs' = IF Succeeded(hr) THEN Append(blobs, NewBlob(h, n))
                            ELSE blobs
                /\ handles' = HandlesAfterCached(h, ret)
    /\ op' = "cached"
    /\ calls' = 1
    /\ UNCHANGED <<gb, cb, pc, desc, soBacking, soSeen, prev, assigns,
                   touched, cmpVars>>

\* #[derive(Clone)] on the handle types: the clone shares the resource reference
Clone ==
    /\ pc = "idle"
    /\ HasRoom
    /\ \E h \in DOMAIN handles : handles' = Append(handles, handles[h])
    /\ Consumed
    /\ UNCHANGED <<gb, cb, flightVars, blobs, prev, assigns, touched, cmpVars>>

Next ==
    \/ GNew
    \/ CNew
    \/ GAssign
    \/ CAssign
    \/ GBuildCall
    \/ GBuildReturn
    \/ CBuildCall
    \/ CBuildReturn
    \/ Cached
    \/ Clone

Spec == Init /\ [][Next]_vars

\* ---------------------------------------------------------- ComparisonFunc
RECURSIVE BitAnd(_, _), BitOr(_, _), BitXor(_, _), AndNot(_, _)
BitAnd(a, b) ==
    IF a = 0 \/ b = 0 THEN 0
    ELSE (a % 2) * (b % 2) + 2 * BitAnd(a \div 2, b \div 2)
BitOr(a, b) ==
    IF a = 0 THEN b
    ELSE IF b = 0 THEN a
    ELSE (IF a % 2 = 1 \/ b % 2 = 1 THEN 1 ELSE 0) + 2 * BitOr(a \div 2, b \div 2)
BitXor(a, b) ==
    IF a = 0 THEN b
    ELSE IF b = 0 THEN a
    ELSE ((a + b) % 2) + 2 * BitXor(a \div 2, b \div 2)
\* m & !a
AndNot(m, a) ==
    IF m = 0 THEN 0
    ELSE (m % 2) * (1 - (a % 2)) + 2 * AndNot(m \div 2, a \div 2)

\* the eight named constants of the bitflags! block
CmpNamed == {NEVER, LESS, EQUAL, LESS_EQUAL, GREATER, NOT_EQUAL, GREATER_EQUAL,
             ALWAYS}

\* ComparisonFunc::all(): the union of the named constants
CmpAll ==
    BitOr(NEVER, BitOr(LESS, BitOr(EQUAL, BitOr(LESS_EQUAL, BitOr(GREATER,
      BitOr(NOT_EQUAL, BitOr(GREATER_EQUAL, ALWAYS)))))))
\* ComparisonFunc::empty()
CmpEmpty == 0
\* the operators bitflags! derives: | & ^ - !
CmpUnion(a, b) == BitOr(a, b)
CmpIntersection(a, b) == BitAnd(a, b)
CmpToggle(a, b) == BitXor(a, b)
CmpDifference(a, b) == AndNot(a, b)
CmpComplement(a) == AndNot(CmpAll, a)

pipeVars == <<gb, cb, callVars, handles, blobs, prev, assigns, touched, session>>

\* a named constant is taken
CfConst ==
    /\ \E c \in CmpNamed : \/ cfx' = c /\ cfy' = cfy
                           \/ cfy' = c /\ cfx' = cfx
    /\ UNCHANGED pipeVars

\* ComparisonFunc::empty() or ComparisonFunc::all()
CfEmptyAll ==
    /\ cfx' \in {CmpEmpty, CmpAll}
    /\ UNCHANGED <<cfy, pipeVars>>

\* a binary operator applied to the two values
CfBinary ==
    /\ cfx' \in {CmpUnion(cfx, cfy), CmpIntersection(cfx, cfy),
                 CmpToggle(cfx, cfy), CmpDifference(cfx, cfy)}
    /\ UNCHANGED <<cfy, pipeVars>>

\* !x
CfNot ==
    /\ cfx' = CmpComplement(cfx)
    /\ UNCHANGED <<cfy, pipeVars>>

\* the type is Copy: a value is copied
CfCopy ==
    /\ cfy' = cfx
    /\ UNCHANGED <<cfx, pipeVars>>

NextCmp ==
    \/ CfConst
    \/ CfEmptyAll
    \/ CfBinary
    \/ CfNot
    \/ CfCopy

SpecCmp == Init /\ [][NextCmp]_vars

\* ============================================================== properties
InGraphicsCall == pc = "g_call"
InComputeCall == pc = "c_call"

\* C1: while CreateGraphicsPipelineState runs, the backing storage that
\* stream_output.build() returned with its flat struct is still alive.
C1_SoBackingAliveDuringCall ==
    InGraphicsCall => soBacking = "alive"

\* the field of the graphics descriptor that belongs to a stage field
StageOf(f) ==
    CASE f = "vs" -> "VS" [] f = "ps" -> "PS" [] f = "ds" -> "DS"
      [] f = "hs" -> "HS" [] f = "gs" -> "GS"

StageAsSet(d, F, opt) ==
    IF opt = None
    THEN d[F].pShaderBytecode = NullPtr /\ d[F].BytecodeLength = 0
    ELSE d[F] = to_shader_bytecode(opt.val)

C3_BuildAllOrNothing ==
    /\ [](pc = "idle" =>
            /\ session = "G" => ENABLED GBuildCall
            /\ session = "C" => ENABLED CBuildCall)
    /\ [][(InGraphicsCall \/ InComputeCall) =>
            /\ pc' = "idle"
            /\ op' = "build"
            /\ calls' = 1
            /\ \/ /\ devHr' = "S_OK"
                  /\ devRet' # Unset
                  /\ result' = [tag |-> "Ok",
                                val |-> [kind |-> IF InGraphicsCall THEN "G" ELSE "C",
                                         ptr |-> devRet']]
               \/ /\ devHr' # "S_OK"
                  /\ devRet' = Unset
                  /\ result' = [tag |-> "Err", status |-> devHr']
                  /\ handles' = handles]_vars

\* C3 witness: a build has returned the device's failure status
C3_Witness ==
    /\ pc = "idle"
    /\ op = "build"
    /\ result.tag = "Err"
    /\ result.status = "E_INVALIDARG"
    /\ calls = 1

\* C4: the render-target count the device receives never exceeds the
\* capacity of the render-target-format table, whatever was assigned.
C4_RenderTargetCountWithinTable ==
    InGraphicsCall =>
        /\ desc.NumRenderTargets <= RtCapacity
        /\ DOMAIN desc.RTVFormats = RtIndex

\* C5: new() gives the documented defaults, and a build after setting only
\* shader stages hands over render-target count 1, an all-ones sample mask,
\* the triangle topology and no flags.
C5_Defaults ==
    /\ touched = {} =>
         /\ gb.sample_mask = [hi |-> U16Max, lo |-> U16Max]
         /\ gb.num_render_targets = 1
         /\ \A i \in RtIndex : gb.rtv_formats[i] = "UNKNOWN"
         /\ DOMAIN gb.rtv_formats = RtIndex
         /\ gb.dsv_format = "D24_UNORM_S8_UINT"
         /\ gb.primitive_topology_type = "TRIANGLE"
         /\ gb.node_mask = 0
         /\ gb.flags = {}
         /\ \A f \in ShaderFields : gb[f] = None
         /\ gb.cache = None
    /\ (InGraphicsCall /\ touched \subseteq ShaderFields) =>
         /\ desc.NumRenderTargets = 1
         /\ desc.SampleMask = [hi |-> U16Max, lo |-> U16Max]
         /\ desc.PrimitiveTopologyType = "TRIANGLE"
         /\ desc.Flags = FlagNoneBits

\* C5 witness: a build of a new builder on which only a shader stage was set
C5_Witness ==
    /\ InGraphicsCall
    /\ touched # {}
    /\ touched \subseteq ShaderFields

\* C6: every ComparisonFunc value the type's operations produce is one of
\* the eight named members, and the eight members are pairwise distinct.
C6_ClosedEnumeration ==
    /\ cfx \in CmpNamed
    /\ cfy \in CmpNamed
    /\ Cardinality(CmpNamed) = 8

SameButCache(b, c) == [b EXCEPT !.cache = c.cache] = c

\* C7: a build with cache = Some(blob) hands over the blob's (pointer,
\* length) unmodified in the cached-pipeline-state field, a build with no
\* cache hands over null and zero, and when the blob is the cache of the
\* handle of the previous build and the configuration is otherwise the same,
\* every other field equals the previous descriptor's.
C7_CacheRoundTrip ==
    (InGraphicsCall \/ InComputeCall) =>
        LET b == IF InGraphicsCall THEN gb ELSE cb
            k == IF InGraphicsCall THEN "G" ELSE "C"
        IN  /\ b.cache = None =>
                 /\ desc.CachedPSO.pCachedBlob = NullPtr
                 /\ desc.CachedPSO.CachedBlobSizeInBytes = 0
            /\ IsSome(b.cache) =>
                 LET blob == blobs[b.cache.val.ptr]
                 IN  /\ desc.CachedPSO.pCachedBlob = blob.buf
                     /\ desc.CachedPSO.CachedBlobSizeInBytes = blob.size
                     /\ (prev.kind = k /\ blob.from = prev.ret
                            /\ SameButCache(b, prev.cfg)) =>
                          [desc EXCEPT !.CachedPSO = prev.desc.CachedPSO] = prev.desc

\* C7 witness: the builder of the previous build is built again with the cache
\* of that build's handle
C7_Witness ==
    /\ InGraphicsCall
    /\ IsSome(gb.cache)
    /\ prev.kind = "G"
    /\ blobs[gb.cache.val.ptr].from = prev.ret
    /\ blobs[gb.cache.val.ptr].size > 0
    /\ SameButCache(gb, prev.cfg)
    /\ prev.cfg.cache = None

AfterCached == pc = "idle" /\ op = "cached"

\* C8 as stated: cached() returns Ok with a blob of length greater than zero
\* or the error carrying the device's status.
C8_CachedNeverEmpty ==
    AfterCached =>
        \/ result.tag = "Ok" /\ blobs[result.val.ptr].size > 0
        \/ result.tag = "Err" /\ result.status = devHr

\* C8 amended: cached() returns Ok wrapping the blob object the device
\* returned, whatever its length, when the status is the success status, and
\* otherwise the error carrying the device's status.
C8_CachedPassThrough ==
    AfterCached =>
        \/ /\ devHr = "S_OK"
           /\ result.tag = "Ok"
           /\ result.val.ptr \in DOMAIN blobs
           /\ devRet = Ptr("blob_object", result.val.ptr)
           /\ blobs[result.val.ptr].size \in BlobSizes
        \/ /\ devHr # "S_OK"
           /\ result = [tag |-> "Err", status |-> devHr]

\* C8 witness: cached() has returned Ok with a blob of length zero
C8_Witness ==
    /\ AfterCached
    /\ result.tag = "Ok"
    /\ blobs[result.val.ptr].size = 0

\* the descriptor a graphics builder's fields determine, field by field
ExpectedGraphicsDesc(b) ==
    [kind |-> "graphics",
     pRootSignature |-> Ptr("rootsig", b.rootsig),
     VS |-> IF IsSome(b.vs) THEN to_shader_bytecode(b.vs.val) ELSE ZeroShader,
     PS |-> IF IsSome(b.ps) THEN to_shader_bytecode(b.ps.val) ELSE ZeroShader,
     DS |-> IF IsSome(b.ds) THEN to_shader_bytecode(b.ds.val) ELSE ZeroShader,
     HS |-> IF IsSome(b.hs) THEN to_shader_bytecode(b.hs.val) ELSE ZeroShader,
     GS |-> IF IsSome(b.gs) THEN to_shader_bytecode(b.gs.val) ELSE ZeroShader,
     StreamOutput |-> [pSODeclaration |-> Ptr("so_backing", 0),
                       NumEntries |-> b.stream_output],
     BlendState |-> b.blend_state,
     SampleMask |-> b.sample_mask,
     RasterizerState |-> b.rasterizer_state,
     DepthStencilState |-> b.depth_stencil_state,
     InputLayout |-> [pInputElementDescs |-> Ptr("input_elements", 0),
                      NumElements |-> b.input_layout],
     IBStripCutValue |-> b.strip_cut_value,
     PrimitiveTopologyType |-> b.primitive_topology_type,
     NumRenderTargets |-> b.num_render_targets,
     RTVFormats |-> b.rtv_formats,
     DSVFormat |-> b.dsv_format,
     SampleDesc |-> b.sample_desc,
     NodeMask |-> b.node_mask,
     CachedPSO |-> IF IsSome(b.cache)
                   THEN [pCachedBlob |-> blobs[b.cache.val.ptr].buf,
                         CachedBlobSizeInBytes |-> blobs[b.cache.val.ptr].size]
                   ELSE ZeroCached,
     Flags |-> IF b.flags = {} THEN 0 ELSE 1]

ExpectedComputeDesc(b) ==
    [kind |-> "compute",
     pRootSignature |-> Ptr("rootsig", b.rootsig),
     CS |-> IF IsSome(b.cs) THEN to_shader_bytecode(b.cs.val) ELSE ZeroShader,
     NodeMask |-> b.node_mask,
     CachedPSO |-> IF IsSome(b.cache)
                   THEN [pCachedBlob |-> blobs[b.cache.val.ptr].buf,
                         CachedBlobSizeInBytes |-> blobs[b.cache.val.ptr].size]
                   ELSE ZeroCached,
     Flags |-> IF b.flags = {} THEN 0 ELSE 1]

\* C9: a build leaves the builder's fields as they were; the descriptor it
\* hands over is determined by the builder's current fields alone, and is the
\* previous build's descriptor when no field changed in between.
C9_BuildersStateless ==
    /\ [](/\ InGraphicsCall =>
               /\ desc = ExpectedGraphicsDesc(gb)
               /\ (prev.kind = "G" /\ prev.cfg = gb) => desc = prev.desc
          /\ InComputeCall =>
               /\ desc = ExpectedComputeDesc(cb)
               /\ (prev.kind = "C" /\ prev.cfg = cb) => desc = prev.desc)
    /\ [][pc' # pc => (gb' = gb /\ cb' = cb)]_vars

\* C9 witness: a changed builder is built a second time with no assignment
\* since its previous build
C9_Witness ==
    /\ InGraphicsCall
    /\ prev.kind = "G"
    /\ prev.cfg = gb
    /\ touched # {}

\* C10: a handle the caller holds keeps the resource reference it was created
\* with through every later operation.
C10_HandlesImmutable ==
    [][\A i \in DOMAIN handles :
          /\ i \in DOMAIN handles'
          /\ handles'[i] = handles[i]]_vars

\* C10 witness: a second build has produced a new handle beside the first
C10_Witness ==
    /\ Len(handles) = 2
    /\ handles[1].ptr # handles[2].ptr
    /\ handles[1].ptr = Ptr("pso", 1)

====
